---------------------------- MODULE Spec2Model ----------------------------
(* A model of the esp-sensor firmware:                                     *)
(*   - line_proto: the typestate line-protocol builder and its validator   *)
(*     (src/src/line_proto/mod.rs);                                        *)
(*   - main: the sensor producer, the display loop and the delivery loop   *)
(*     around the bounded broadcast bus (src/src/main.rs).                 *)
EXTENDS Integers, Sequences, FiniteSets, TLC

VARIABLES
    \* ---- line_proto::LineBuilder<STATE, W, E> ----
    stage,        \* the STATE type parameter of the live builder, or Done / Dropped
    needs_comma,  \* LineBuilder.needs_comma
    w,            \* LineBuilder.w, the sink
    result,       \* what the last builder call returned
    calls,        \* the builder calls made so far, with what each returned
    mArg,         \* the name given to measurement()
    tagArgs,      \* the <<name, value>> pairs given to successful tag() calls
    fieldArgs,    \* the <<name, value>> pairs given to successful field() calls
    tsArg,        \* the ns given to ts(), or -1
    \* ---- validate_str ----
    vs,           \* the string handed to validate_str
    vres,         \* what validate_str returned for it, or "none"
    \* ---- main: the bus and the three threads ----
    published,    \* every reading broadcast on the bus, in order
    rd,           \* per BusReader: how many of them it has received
    got,          \* per BusReader: the readings its iterator yielded, in order
    prodPc,       \* where read_sensor is
    prodVal,      \* the reading read_sensor holds, or NoData
    readFails,    \* the failed reads in a row before the reading read_sensor
                  \* holds or has just broadcast (counted up to MaxFails)
    dispPc,       \* where display_sensor_data is
    dispVal,      \* the reading display_sensor_data holds, or NoData
    digits,       \* the digits last handed to tm.print_hex, or <<>>
    sendPc,       \* where data_sender is
    sendVal,      \* the reading do_request is sending, or NoData
    session,      \* how many HTTP sessions data_sender_inner has set up
    lastReq,      \* the last do_request call: reading, session, status (0: Err)
    \* ---- the classification of a response status ----
    stStatus,     \* the status of the response
    stWrite,      \* what influx::Client::write returned for it, or "none"
    stLog,        \* what handle_response logged for it, or "none"
    \* ---- wifi::connection ----
    connPc,       \* where the connection task is
    started,      \* whether the WifiController is started
    connected,    \* whether get_wifi_state() is WifiState::StaConnected
    ctrlLog       \* the loop iterations, controller calls and sleeps so far

encVars == <<stage, needs_comma, w, result, calls, mArg, tagArgs, fieldArgs, tsArg>>
valVars == <<vs, vres>>
sendLogVars == <<session, lastReq>>
busVars == <<published, rd, got, prodPc, prodVal, readFails, dispPc, dispVal, digits, sendPc, sendVal,
             sendLogVars>>
stVars == <<stStatus, stWrite, stLog>>
wifiVars == <<connPc, started, connected, ctrlLog>>
vars == <<encVars, valVars, busVars, stVars, wifiVars>>

-----------------------------------------------------------------------------
(* Bounds of the model.                                                    *)

MaxTags == 2
MaxFields == 2
MaxStrLen == 3
SmallCap == 1
MidCap == 9
BigCap == 64
MaxSamples == 5
MaxFails == 2
MinStatus == 100
MaxStatus == 599
MaxEvents == 14

-----------------------------------------------------------------------------
(* Text. A string is a sequence of one-character strings.                  *)

NL == "\n"
QUOTE == "\""

Min(a, b) == IF a < b THEN a ELSE b

Take(s, n) == SubSeq(s, 1, Min(n, Len(s)))

Contains(s, c) == \E i \in 1..Len(s) : s[i] = c

StartsWith(s, c) == Len(s) > 0 /\ s[1] = c

DigitChar(d) == <<"0", "1", "2", "3", "4", "5", "6", "7", "8", "9">>[d + 1]

\* Display for an unsigned integer ({ns} with ns: u64): its decimal digits.
RECURSIVE FmtU64(_)
FmtU64(n) == IF n < 10 THEN <<DigitChar(n)>>
             ELSE FmtU64(n \div 10) \o <<DigitChar(n % 10)>>

\* Display for an f32 ({value}) of a value given in tenths: a minus sign when
\* negative, the integer part, and the fraction only when it is not zero
\* (21.0 prints as 21, 55.5 as 55.5, -0.5 as -0.5).
FmtF32(t) ==
    LET a == IF t < 0 THEN -t ELSE t
        sign == IF t < 0 THEN <<"-">> ELSE <<>>
        frac == IF a % 10 = 0 THEN <<>> ELSE <<".", DigitChar(a % 10)>>
    IN  sign \o FmtU64(a \div 10) \o frac

-----------------------------------------------------------------------------
(* validate_str.                                                           *)

validate_strSwapped(s) ==
    IF StartsWith(s, "_") THEN "StartWithUnderScore"
    ELSE IF Contains(s, QUOTE) THEN "ContainsQuotes"
    ELSE IF Contains(s, NL) THEN "ContainsNewLine"
    ELSE "Ok"

validate_str(s) ==
    IF StartsWith(s, "_") THEN "StartWithUnderScore"
    ELSE IF Contains(s, NL) THEN "ContainsNewLine"
    ELSE IF Contains(s, QUOTE) THEN "ContainsQuotes"
    ELSE "Ok"

-----------------------------------------------------------------------------
(* The sink W: a byte buffer of fixed capacity, as the slice the module's  *)
(* test builds into.                                                       *)

SinkCaps == {SmallCap, MidCap, BigCap}

NewSink(cap, flushOk) ==
    [buf |-> <<>>, cap |-> cap, flushOk |-> flushOk, flushCalls |-> 0, flushed |-> 0]

Room(s) == s.cap - Len(s.buf)

\* Write::write: takes as many bytes as fit and returns Ok(that many).
SinkWrite(s, bytes) == [s EXCEPT !.buf = @ \o Take(bytes, Room(s))]

\* Write::write_all and Write::write_fmt: the bytes that fit are written; the
\* call fails when they did not all fit.
SinkWriteAllOk(s, bytes) == Len(bytes) <= Room(s)

\* Write::flush.
SinkFlush(s) ==
    [s EXCEPT !.flushCalls = @ + 1,
              !.flushed = IF s.flushOk THEN Len(s.buf) ELSE @]

-----------------------------------------------------------------------------
(* The inputs of the builder calls.                                        *)

EncIdents == { <<"m">>, <<"b", "c">>, <<"_", "a">>, <<"a", NL>>, <<QUOTE>> }
FieldVals == { 555, 210, -5 }
TsVals == { 0, 1000 }

-----------------------------------------------------------------------------
(* line_proto::LineBuilder.                                                *)

\* A call returned: the identifiers it was given, the builder it hands back
\* (or none: the call consumed self), and its result.
Return(op, ids, newStage, res) ==
    /\ stage' = newStage
    /\ result' = res
    /\ calls' = Append(calls, [op |-> op, ids |-> ids, res |-> res])

\* new(w)
EncInit ==
    /\ stage = "Measurement"
    /\ needs_comma = FALSE
    /\ w \in { NewSink(c, f) : c \in SinkCaps, f \in BOOLEAN }
    /\ result = "none"
    /\ calls = <<>>
    /\ mArg = <<>>
    /\ tagArgs = <<>>
    /\ fieldArgs = <<>>
    /\ tsArg = -1

\* LineBuilder<state::Measurement>::measurement
measurement(name) ==
    /\ stage = "Measurement"
    /\ IF validate_str(name) # "Ok"
       THEN /\ Return("measurement", <<name>>, "Dropped", validate_str(name))
            /\ UNCHANGED <<needs_comma, w, mArg>>
       ELSE /\ w' = SinkWrite(w, name)
            /\ needs_comma' = TRUE
            /\ mArg' = name
            /\ Return("measurement", <<name>>, "Tag", "Ok")
    /\ UNCHANGED <<tagArgs, fieldArgs, tsArg>>

TagBytes(name, value) == <<",">> \o name \o <<"=">> \o value

\* LineBuilder<state::Tag>::tag
tag(name, value) ==
    /\ stage = "Tag"
    /\ IF validate_str(name) # "Ok"
       THEN /\ Return("tag", <<name, value>>, "Dropped", validate_str(name))
            /\ UNCHANGED <<needs_comma, w, tagArgs>>
       ELSE IF validate_str(value) # "Ok"
       THEN /\ Return("tag", <<name, value>>, "Dropped", validate_str(value))
            /\ UNCHANGED <<needs_comma, w, tagArgs>>
       ELSE /\ w' = SinkWrite(w, TagBytes(name, value))
            /\ IF SinkWriteAllOk(w, TagBytes(name, value))
               THEN /\ needs_comma' = FALSE
                    /\ tagArgs' = Append(tagArgs, <<name, value>>)
                    /\ Return("tag", <<name, value>>, "Tag", "Ok")
               ELSE /\ Return("tag", <<name, value>>, "Dropped", "Fmt")
                    /\ UNCHANGED <<needs_comma, tagArgs>>
    /\ UNCHANGED <<mArg, fieldArgs, tsArg>>

TagNextBytesAlwaysComma(nc) == <<",", " ">>

\* The bytes LineBuilder<state::Tag>::next writes.
TagNextBytes(nc) == IF nc THEN <<",", " ">> ELSE <<" ">>

TagNextKeepsBuilder ==
    /\ stage = "Tag"
    /\ w' = SinkWrite(w, TagNextBytes(needs_comma))
    /\ IF SinkWriteAllOk(w, TagNextBytes(needs_comma))
       THEN /\ needs_comma' = FALSE
            /\ Return("end_tags", <<>>, "Field", "Ok")
       ELSE /\ Return("end_tags", <<>>, "Tag", "Write")
            /\ UNCHANGED needs_comma
    /\ UNCHANGED <<mArg, tagArgs, fieldArgs, tsArg>>

\* LineBuilder<state::Tag>::next
TagNext ==
    /\ stage = "Tag"
    /\ w' = SinkWrite(w, TagNextBytes(needs_comma))
    /\ IF SinkWriteAllOk(w, TagNextBytes(needs_comma))
       THEN /\ needs_comma' = FALSE
            /\ Return("end_tags", <<>>, "Field", "Ok")
       ELSE /\ Return("end_tags", <<>>, "Dropped", "Write")
            /\ UNCHANGED needs_comma
    /\ UNCHANGED <<mArg, tagArgs, fieldArgs, tsArg>>

FieldBytesAlwaysComma(nc, name, value) ==
    <<",">> \o name \o <<"=">> \o FmtF32(value)

\* The bytes LineBuilder<state::Field>::field writes.
FieldBytes(nc, name, value) ==
    (IF nc THEN <<",">> ELSE <<>>) \o name \o <<"=">> \o FmtF32(value)

fieldCommaFirst(name, value) ==
    /\ stage = "Field"
    /\ IF validate_str(name) # "Ok"
       THEN /\ Return("field", <<name>>, "Dropped", validate_str(name))
            /\ w' = SinkWrite(w, IF needs_comma THEN <<",">> ELSE <<>>)
            /\ UNCHANGED <<needs_comma, fieldArgs>>
       ELSE /\ w' = SinkWrite(w, FieldBytes(needs_comma, name, value))
            /\ IF SinkWriteAllOk(w, FieldBytes(needs_comma, name, value))
               THEN /\ needs_comma' = TRUE
                    /\ fieldArgs' = Append(fieldArgs, <<name, value>>)
                    /\ Return("field", <<name>>, "Field", "Ok")
               ELSE /\ Return("field", <<name>>, "Dropped",
                              IF needs_comma /\ Room(w) = 0 THEN "Write" ELSE "Fmt")
                    /\ UNCHANGED <<needs_comma, fieldArgs>>
    /\ UNCHANGED <<mArg, tagArgs, tsArg>>

\* LineBuilder<state::Field>::field
field(name, value) ==
    /\ stage = "Field"
    /\ IF validate_str(name) # "Ok"
       THEN /\ Return("field", <<name>>, "Dropped", validate_str(name))
            /\ UNCHANGED <<needs_comma, w, fieldArgs>>
       ELSE /\ w' = SinkWrite(w, FieldBytes(needs_comma, name, value))
            /\ IF SinkWriteAllOk(w, FieldBytes(needs_comma, name, value))
               THEN /\ needs_comma' = TRUE
                    /\ fieldArgs' = Append(fieldArgs, <<name, value>>)
                    /\ Return("field", <<name>>, "Field", "Ok")
               ELSE \* the comma's write_all fails with Write, the write_fmt with Fmt
                    /\ Return("field", <<name>>, "Dropped",
                              IF needs_comma /\ Room(w) = 0 THEN "Write" ELSE "Fmt")
                    /\ UNCHANGED <<needs_comma, fieldArgs>>
    /\ UNCHANGED <<mArg, tagArgs, tsArg>>

FieldNextStateTag == "Tag"

\* The state of the builder LineBuilder<state::Field>::next returns.
FieldNextState == "Timestamp"

FieldNextWritesSpace ==
    /\ stage = "Field"
    /\ w' = SinkWrite(w, <<" ">>)
    /\ needs_comma' = FALSE
    /\ IF SinkWriteAllOk(w, <<" ">>)
       THEN Return("end_fields", <<>>, FieldNextState, "Ok")
       ELSE Return("end_fields", <<>>, "Dropped", "Write")
    /\ UNCHANGED <<mArg, tagArgs, fieldArgs, tsArg>>

\* LineBuilder<state::Field>::next
FieldNext ==
    /\ stage = "Field"
    /\ needs_comma' = FALSE
    /\ Return("end_fields", <<>>, FieldNextState, "Ok")
    /\ UNCHANGED <<w, mArg, tagArgs, fieldArgs, tsArg>>

buildFlushFirst(s) ==
    IF ~s.flushOk THEN [w |-> SinkFlush(s), res |-> "Write"]
    ELSE IF ~SinkWriteAllOk(SinkFlush(s), <<NL>>)
    THEN [w |-> SinkFlush(s), res |-> "Write"]
    ELSE [w |-> SinkWrite(SinkFlush(s), <<NL>>), res |-> "Ok"]

\* LineBuilder<state::Timestamp>::build, on sink s: the sink it leaves and
\* what it returns.
build(s) ==
    IF ~SinkWriteAllOk(s, <<NL>>) THEN [w |-> s, res |-> "Write"]
    ELSE [w |-> SinkFlush(SinkWrite(s, <<NL>>)),
          res |-> IF s.flushOk THEN "Ok" ELSE "Write"]

\* build() called on the Timestamp-stage builder
Build ==
    /\ stage = "Timestamp"
    /\ w' = build(w).w
    /\ Return("build", <<>>, IF build(w).res = "Ok" THEN "Done" ELSE "Dropped",
              build(w).res)
    /\ UNCHANGED <<needs_comma, mArg, tagArgs, fieldArgs, tsArg>>

TsBytesNoSpace(ns) == FmtU64(ns)

\* The bytes LineBuilder<state::Timestamp>::ts writes before it calls build.
TsBytes(ns) == <<" ">> \o FmtU64(ns)

\* LineBuilder<state::Timestamp>::ts
ts(ns) ==
    /\ stage = "Timestamp"
    /\ IF ~SinkWriteAllOk(w, TsBytes(ns))
       THEN /\ w' = SinkWrite(w, TsBytes(ns))
            /\ Return("ts", <<>>, "Dropped", "Fmt")
            /\ UNCHANGED tsArg
       ELSE /\ w' = build(SinkWrite(w, TsBytes(ns))).w
            /\ tsArg' = ns
            /\ Return("ts", <<>>,
                      IF build(SinkWrite(w, TsBytes(ns))).res = "Ok"
                      THEN "Done" ELSE "Dropped",
                      build(SinkWrite(w, TsBytes(ns))).res)
    /\ UNCHANGED <<needs_comma, mArg, tagArgs, fieldArgs>>

Measurement ==
    /\ \E name \in EncIdents : measurement(name)
    /\ UNCHANGED <<valVars, busVars, stVars, wifiVars>>

Tag ==
    /\ Len(tagArgs) < MaxTags
    /\ \E name \in EncIdents, value \in EncIdents : tag(name, value)
    /\ UNCHANGED <<valVars, busVars, stVars, wifiVars>>

EndTags ==
    /\ TagNext
    /\ UNCHANGED <<valVars, busVars, stVars, wifiVars>>

Field ==
    /\ Len(fieldArgs) < MaxFields
    /\ \E name \in EncIdents, value \in FieldVals : field(name, value)
    /\ UNCHANGED <<valVars, busVars, stVars, wifiVars>>

EndFields ==
    /\ FieldNext
    /\ UNCHANGED <<valVars, busVars, stVars, wifiVars>>

Finish ==
    /\ Build
    /\ UNCHANGED <<valVars, busVars, stVars, wifiVars>>

Timestamp ==
    /\ \E ns \in TsVals : ts(ns)
    /\ UNCHANGED <<valVars, busVars, stVars, wifiVars>>

-----------------------------------------------------------------------------
(* validate_str applied to every short string over the characters it tests. *)

ValChars == { "a", "_", NL, QUOTE }
ValStrings == UNION { [1..n -> ValChars] : n \in 0..MaxStrLen }

ValInit ==
    /\ vs \in ValStrings
    /\ vres = "none"

Validate ==
    /\ vres = "none"
    /\ vres' = validate_str(vs)
    /\ UNCHANGED <<vs, encVars, busVars, stVars, wifiVars>>

-----------------------------------------------------------------------------
(* main: the bus::Bus of capacity 4 with its two readers, and the threads  *)
(* read_sensor, display_sensor_data and data_sender.                       *)

\* bus::Bus::<SensorData>::new(4)
BusLen == 4

Readers == { "display", "sender" }

NoData == [temperature |-> 0, humidity |-> -1]

\* What dht_read returns when it succeeds, as SensorData in tenths.
SensorVals ==
    { [temperature |-> -400, humidity |-> 555],
      [temperature |-> 800, humidity |-> 999],
      [temperature |-> 213, humidity |-> 0],
      [temperature |-> 213, humidity |-> 1000],
      [temperature |-> 801, humidity |-> 500],
      [temperature |-> -401, humidity |-> 500] }

is_correctInclusive(d) ==
    LET humidity_correct == d.humidity >= 0 /\ d.humidity <= 1000
        temperature_correct == d.temperature >= -400 /\ d.temperature <= 800
    IN  humidity_correct /\ temperature_correct

\* SensorData::is_correct
is_correct(d) ==
    LET humidity_correct == d.humidity > 0 /\ d.humidity < 1000
        temperature_correct == d.temperature >= -400 /\ d.temperature <= 800
    IN  humidity_correct /\ temperature_correct

\* The readings reader r has not received yet.
Unread(r) == Len(published) - rd[r]

CanBroadcastAlways == TRUE

\* Bus::broadcast returns once the ring has a free slot: every reader has at
\* most BusLen - 1 unread readings. Until then the caller waits inside it.
CanBroadcast == \A r \in Readers : Unread(r) < BusLen

BusInit ==
    /\ published = <<>>
    /\ rd = [r \in Readers |-> 0]
    /\ got = [r \in Readers |-> <<>>]
    /\ prodPc = "boot"
    /\ prodVal = NoData
    /\ readFails = 0
    /\ dispPc = "init"
    /\ dispVal = NoData
    /\ digits = <<>>
    /\ sendPc = "wifi"
    /\ sendVal = NoData
    /\ session = 0
    /\ lastReq = [idx |-> 0, session |-> 0, status |-> 0]

\* read_sensor, before its loop: sleep 10 s, one discarded read, sleep 500 ms.
SensorBoot ==
    /\ prodPc = "boot"
    /\ prodPc' = "read"
    /\ UNCHANGED <<published, rd, got, prodVal, dispPc, dispVal, digits, sendPc, sendVal>>
    /\ UNCHANGED <<encVars, valVars, stVars, wifiVars, readFails, sendLogVars>>

\* read_sensor: dht_read failed; log, then sleep 10 s.
SensorReadErr ==
    /\ prodPc = "read"
    /\ prodPc' = "backoff"
    /\ readFails' = Min(readFails + 1, MaxFails)
    /\ UNCHANGED <<published, rd, got, prodVal, dispPc, dispVal, digits, sendPc, sendVal>>
    /\ UNCHANGED <<encVars, valVars, stVars, wifiVars, sendLogVars>>

SensorBackoffOverSkipsRead ==
    /\ prodPc = "backoff"
    /\ prodPc' = "sleep"
    /\ UNCHANGED <<published, rd, got, prodVal, dispPc, dispVal, digits, sendPc, sendVal>>
    /\ UNCHANGED <<encVars, valVars, stVars, wifiVars, readFails, sendLogVars>>

\* read_sensor: the 10 s sleep after a failed read is over; continue.
SensorBackoffOver ==
    /\ prodPc = "backoff"
    /\ prodPc' = "read"
    /\ UNCHANGED <<published, rd, got, prodVal, dispPc, dispVal, digits, sendPc, sendVal>>
    /\ UNCHANGED <<encVars, valVars, stVars, wifiVars, readFails, sendLogVars>>

\* read_sensor: dht_read succeeded; a correct value goes to bus.broadcast, an
\* incorrect one is logged and dropped.
SensorReadOk ==
    /\ prodPc = "read"
    /\ Len(published) < MaxSamples
    /\ \E v \in SensorVals :
         IF is_correct(v)
         THEN prodPc' = "broadcast" /\ prodVal' = v /\ UNCHANGED readFails
         ELSE prodPc' = "sleep" /\ prodVal' = NoData /\ readFails' = 0
    /\ UNCHANGED <<published, rd, got, dispPc, dispVal, digits, sendPc, sendVal>>
    /\ UNCHANGED <<encVars, valVars, stVars, wifiVars, sendLogVars>>

\* read_sensor: bus.broadcast(value) returns.
Broadcast ==
    /\ prodPc = "broadcast"
    /\ CanBroadcast
    /\ published' = Append(published, prodVal)
    /\ prodVal' = NoData
    /\ prodPc' = "sleep"
    /\ UNCHANGED <<rd, got, dispPc, dispVal, digits, sendPc, sendVal>>
    /\ UNCHANGED <<encVars, valVars, stVars, wifiVars, readFails, sendLogVars>>

\* read_sensor: the sleep of read_sensor_interval_secs is over.
SensorSleepOver ==
    /\ prodPc = "sleep"
    /\ prodPc' = "read"
    /\ readFails' = 0
    /\ UNCHANGED <<published, rd, got, prodVal, dispPc, dispVal, digits, sendPc, sendVal>>
    /\ UNCHANGED <<encVars, valVars, stVars, wifiVars, sendLogVars>>

RecvNewestFirst(r) ==
    /\ rd[r] < Len(published)
    /\ rd' = [rd EXCEPT ![r] = @ + 1]
    /\ got' = [got EXCEPT ![r] = Append(@, published[Len(published) - rd[r]])]

\* BusReader::iter().next() of reader r: waits for a reading it has not
\* received, and yields the oldest such.
Recv(r) ==
    /\ rd[r] < Len(published)
    /\ rd' = [rd EXCEPT ![r] = @ + 1]
    /\ got' = [got EXCEPT ![r] = Append(@, published[rd[r] + 1])]

\* display_sensor_data, before its loop: sleep 5 s, init, clear and set the
\* brightness of the tm1637 (failures are logged).
DisplayInit ==
    /\ dispPc = "init"
    /\ dispPc' = "recv"
    /\ UNCHANGED <<published, rd, got, prodPc, prodVal, dispVal, digits, sendPc, sendVal>>
    /\ UNCHANGED <<encVars, valVars, stVars, wifiVars, readFails, sendLogVars>>

\* display_sensor_data: the for loop takes the next reading.
DisplayRecv ==
    /\ dispPc = "recv"
    /\ Recv("display")
    /\ dispVal' = published[rd["display"] + 1]
    /\ dispPc' = "show"
    /\ UNCHANGED <<published, prodPc, prodVal, digits, sendPc, sendVal>>
    /\ UNCHANGED <<encVars, valVars, stVars, wifiVars, readFails, sendLogVars>>

\* x as u32 for the f32 x = num / den: toward zero, and 0 below zero.
AsU32(num, den) == IF num < 0 THEN 0 ELSE num \div den

\* The digits display_sensor_data computes for a reading.
Digits(d) ==
    << AsU32(d.temperature, 100) % 10,
       AsU32(d.temperature, 10) % 10,
       AsU32(d.humidity, 100) % 10,
       AsU32(d.humidity, 10) % 10 >>

\* display_sensor_data: the loop body; print_hex succeeds, or fails and is logged.
DisplayShow ==
    /\ dispPc = "show"
    /\ digits' = Digits(dispVal)
    /\ dispVal' = NoData
    /\ dispPc' = "recv"
    /\ UNCHANGED <<published, rd, got, prodPc, prodVal, sendPc, sendVal>>
    /\ UNCHANGED <<encVars, valVars, stVars, wifiVars, readFails, sendLogVars>>

\* data_sender_inner: wifi(..) succeeded.
WifiUp ==
    /\ sendPc = "wifi"
    /\ sendPc' = "http"
    /\ UNCHANGED <<published, rd, got, prodPc, prodVal, dispPc, dispVal, digits, sendVal>>
    /\ UNCHANGED <<encVars, valVars, stVars, wifiVars, readFails, sendLogVars>>

\* data_sender_inner: wifi(..) failed; data_sender logs and sleeps 30 s.
WifiFail ==
    /\ sendPc = "wifi"
    /\ sendPc' = "sleep"
    /\ UNCHANGED <<published, rd, got, prodPc, prodVal, dispPc, dispVal, digits, sendVal>>
    /\ UNCHANGED <<encVars, valVars, stVars, wifiVars, readFails, sendLogVars>>

\* data_sender_inner: EspHttpConnection::new succeeded; the client wraps a
\* new connection.
HttpUp ==
    /\ sendPc = "http"
    /\ sendPc' = "recv"
    /\ session' = session + 1
    /\ UNCHANGED <<published, rd, got, prodPc, prodVal, dispPc, dispVal, digits, sendVal>>
    /\ UNCHANGED <<encVars, valVars, stVars, wifiVars, readFails, lastReq>>

HttpFailNoSleep ==
    /\ sendPc = "http"
    /\ sendPc' = "wifi"
    /\ UNCHANGED <<published, rd, got, prodPc, prodVal, dispPc, dispVal, digits, sendVal>>
    /\ UNCHANGED <<encVars, valVars, stVars, wifiVars, readFails, sendLogVars>>

\* data_sender_inner: EspHttpConnection::new failed; data_sender logs and
\* sleeps 30 s.
HttpFail ==
    /\ sendPc = "http"
    /\ sendPc' = "sleep"
    /\ UNCHANGED <<published, rd, got, prodPc, prodVal, dispPc, dispVal, digits, sendVal>>
    /\ UNCHANGED <<encVars, valVars, stVars, wifiVars, readFails, sendLogVars>>

\* data_sender_inner: the for loop takes the next reading.
SenderRecv ==
    /\ sendPc = "recv"
    /\ Recv("sender")
    /\ sendVal' = published[rd["sender"] + 1]
    /\ sendPc' = "request"
    /\ UNCHANGED <<published, prodPc, prodVal, dispPc, dispVal, digits>>
    /\ UNCHANGED <<encVars, valVars, stVars, wifiVars, readFails, sendLogVars>>

\* The statuses the server answers with.
Statuses == { 200, 404 }

\* handle_response: what it logs for a status.
HandleResponseLog(status) ==
    IF 200 <= status /\ status < 300 THEN "success" ELSE "failure"

RequestDoneDropsOnReject(status) ==
    /\ sendPc = "request"
    /\ sendVal' = NoData
    /\ sendPc' = IF HandleResponseLog(status) = "success" THEN "recv" ELSE "sleep"
    /\ lastReq' = [idx |-> rd["sender"], session |-> session, status |-> status]
    /\ UNCHANGED <<published, rd, got, prodPc, prodVal, dispPc, dispVal, digits, session>>
    /\ UNCHANGED <<encVars, valVars, stVars, wifiVars, readFails>>

\* do_request returned Ok: the request was created, written and submitted,
\* and handle_response logged the status and read the body. The for loop
\* goes on to the next reading.
RequestDone(status) ==
    /\ sendPc = "request"
    /\ sendVal' = NoData
    /\ sendPc' = "recv"
    /\ lastReq' = [idx |-> rd["sender"], session |-> session, status |-> status]
    /\ UNCHANGED <<published, rd, got, prodPc, prodVal, dispPc, dispVal, digits, session>>
    /\ UNCHANGED <<encVars, valVars, stVars, wifiVars, readFails>>

RequestOk == \E status \in Statuses : RequestDone(status)

RequestErrRequeue ==
    /\ sendPc = "request"
    /\ sendVal' = NoData
    /\ sendPc' = "sleep"
    /\ rd' = [rd EXCEPT !["sender"] = @ - 1]
    /\ lastReq' = [idx |-> rd["sender"], session |-> session, status |-> 0]
    /\ UNCHANGED <<published, got, prodPc, prodVal, dispPc, dispVal, digits, session>>
    /\ UNCHANGED <<encVars, valVars, stVars, wifiVars, readFails>>

\* do_request returned Err (post, write_all, flush, submit or read_body
\* failed): data_sender_inner returns it, dropping the client and the Wi-Fi
\* handle; data_sender logs and sleeps 30 s.
RequestErr ==
    /\ sendPc = "request"
    /\ sendVal' = NoData
    /\ sendPc' = "sleep"
    /\ lastReq' = [idx |-> rd["sender"], session |-> session, status |-> 0]
    /\ UNCHANGED <<published, rd, got, prodPc, prodVal, dispPc, dispVal, digits, session>>
    /\ UNCHANGED <<encVars, valVars, stVars, wifiVars, readFails>>

\* data_sender: the 30 s sleep is over; the loop calls data_sender_inner again.
SenderSleepOver ==
    /\ sendPc = "sleep"
    /\ sendPc' = "wifi"
    /\ UNCHANGED <<published, rd, got, prodPc, prodVal, dispPc, dispVal, digits, sendVal>>
    /\ UNCHANGED <<encVars, valVars, stVars, wifiVars, readFails, sendLogVars>>

-----------------------------------------------------------------------------
(* The two places that classify the status of a response.                  *)

StatusCodes == MinStatus..MaxStatus

StInit ==
    /\ stStatus \in StatusCodes
    /\ stWrite = "none"
    /\ stLog = "none"

\* influx::Client::write, once the response is in: Ok for Status::Ok, Created
\* and Accepted; for any other status the body is read and logged, and the
\* result is Err: Api, or the error of reading or decoding the body.
ClientWriteResults(status) ==
    IF status \in {200, 201, 202} THEN {"Ok"}
    ELSE {"Api", "Reqwless", "Utf8"}

ClientWrite ==
    /\ stWrite = "none"
    /\ stWrite' \in ClientWriteResults(stStatus)
    /\ UNCHANGED <<stStatus, stLog, encVars, valVars, busVars, wifiVars>>

\* handle_response: the log line for the status.
HandleResponse ==
    /\ stLog = "none"
    /\ stLog' = HandleResponseLog(stStatus)
    /\ UNCHANGED <<stStatus, stWrite, encVars, valVars, busVars, wifiVars>>

-----------------------------------------------------------------------------
(* wifi::connection: the task that keeps the station connected.            *)

\* The controller as wifi::init returns it: not started, not connected.
WifiInit ==
    /\ connPc = "top"
    /\ started = FALSE
    /\ connected = FALSE
    /\ ctrlLog = <<>>

Outcomes == { "Ok", "Err" }

\* One more entry of the log: a loop iteration beginning ("loop"), a sleep
\* ("sleep"), or a controller call with its outcome.
Logged(op, res) ==
    /\ Len(ctrlLog) < MaxEvents
    /\ ctrlLog' = Append(ctrlLog, [op |-> op, res |-> res])

\* The top of the loop: the test of get_wifi_state().
LoopTop ==
    /\ connPc = "top"
    /\ Logged("loop", "Ok")
    /\ connPc' = IF connected THEN "wait" ELSE "check"
    /\ UNCHANGED <<started, connected, encVars, valVars, busVars, stVars>>

\* controller.wait_for_event(StaDisconnected) returns: the station lost
\* the connection.
WaitDisconnected ==
    /\ connPc = "wait"
    /\ Logged("wait_for_event", "Ok")
    /\ connected' = FALSE
    /\ connPc' = "sleep5"
    /\ UNCHANGED <<started, encVars, valVars, busVars, stVars>>

\* The station loses the connection while the task is not waiting for it.
LinkLost ==
    /\ connPc # "wait"
    /\ connected
    /\ connected' = FALSE
    /\ UNCHANGED <<connPc, started, ctrlLog, encVars, valVars, busVars, stVars>>

\* The 5 s Timer after the disconnection is over.
DisconnectSleepOver ==
    /\ connPc = "sleep5"
    /\ Logged("sleep", "Ok")
    /\ connPc' = "check"
    /\ UNCHANGED <<started, connected, encVars, valVars, busVars, stVars>>

\* match controller.is_started(): Ok(false) goes on to configure and start,
\* Ok(true) to stop, and Err is logged and falls through to connect.
IsStarted ==
    /\ connPc = "check"
    /\ \E res \in Outcomes :
         /\ Logged("is_started", res)
         /\ connPc' = IF res = "Err" THEN "connect"
                      ELSE IF started THEN "stop" ELSE "configure"
    /\ UNCHANGED <<started, connected, encVars, valVars, busVars, stVars>>

\* controller.set_configuration(&client_config).unwrap()
SetConfiguration ==
    /\ connPc = "configure"
    /\ \E res \in Outcomes :
         /\ Logged("set_configuration", res)
         /\ connPc' = IF res = "Ok" THEN "start" ELSE "panicked"
    /\ UNCHANGED <<started, connected, encVars, valVars, busVars, stVars>>

\* controller.start().await.unwrap()
Start ==
    /\ connPc = "start"
    /\ \E res \in Outcomes :
         /\ Logged("start", res)
         /\ started' = (res = "Ok")
         /\ connPc' = IF res = "Ok" THEN "connect" ELSE "panicked"
    /\ UNCHANGED <<connected, encVars, valVars, busVars, stVars>>

\* controller.stop().await, its error logged; then continue.
Stop ==
    /\ connPc = "stop"
    /\ \E res \in Outcomes :
         /\ Logged("stop", res)
         /\ started' = IF res = "Ok" THEN FALSE ELSE started
    /\ connPc' = "top"
    /\ UNCHANGED <<connected, encVars, valVars, busVars, stVars>>

\* match controller.connect().await: Ok is logged, Err is logged and
\* followed by the 10 s Timer.
Connect ==
    /\ connPc = "connect"
    /\ \E res \in Outcomes :
         /\ Logged("connect", res)
         /\ connected' = (res = "Ok")
         /\ connPc' = IF res = "Ok" THEN "top" ELSE "sleep10"
    /\ UNCHANGED <<started, encVars, valVars, busVars, stVars>>

\* The 10 s Timer after the failed connect is over.
ConnectSleepOver ==
    /\ connPc = "sleep10"
    /\ Logged("sleep", "Ok")
    /\ connPc' = "top"
    /\ UNCHANGED <<started, connected, encVars, valVars, busVars, stVars>>

-----------------------------------------------------------------------------
(* The specifications: one per part of the program, the other parts idle.  *)

EncIdle ==
    /\ stage = "Measurement"
    /\ needs_comma = FALSE
    /\ w = NewSink(BigCap, TRUE)
    /\ result = "none"
    /\ calls = <<>>
    /\ mArg = <<>>
    /\ tagArgs = <<>>
    /\ fieldArgs = <<>>
    /\ tsArg = -1

ValIdle ==
    /\ vs = <<>>
    /\ vres = "none"

StIdle ==
    /\ stStatus = 200
    /\ stWrite = "none"
    /\ stLog = "none"

WifiIdle == WifiInit

InitEnc == EncInit /\ ValIdle /\ BusInit /\ StIdle /\ WifiIdle

NextEnc ==
    \/ Measurement
    \/ Tag
    \/ EndTags
    \/ Field
    \/ EndFields
    \/ Finish
    \/ Timestamp

\* The builder, driven through every call sequence its types allow.
SpecEnc == InitEnc /\ [][NextEnc]_vars

InitVal == ValInit /\ EncIdle /\ BusInit /\ StIdle /\ WifiIdle

NextVal == Validate

\* validate_str on every string of ValStrings.
SpecVal == InitVal /\ [][NextVal]_vars

Init == BusInit /\ EncIdle /\ ValIdle /\ StIdle /\ WifiIdle

Next ==
    \/ SensorBoot
    \/ SensorReadErr
    \/ SensorBackoffOver
    \/ SensorReadOk
    \/ Broadcast
    \/ SensorSleepOver
    \/ DisplayInit
    \/ DisplayRecv
    \/ DisplayShow
    \/ WifiUp
    \/ WifiFail
    \/ HttpUp
    \/ HttpFail
    \/ SenderRecv
    \/ RequestOk
    \/ RequestErr
    \/ SenderSleepOver

\* The three threads of main around the bus.
Spec == Init /\ [][Next]_vars

InitStatus == StInit /\ EncIdle /\ ValIdle /\ BusInit /\ WifiIdle

NextStatus ==
    \/ ClientWrite
    \/ HandleResponse

\* influx::Client::write and handle_response on every status code.
SpecStatus == InitStatus /\ [][NextStatus]_vars

InitWifi == WifiInit /\ EncIdle /\ ValIdle /\ BusInit /\ StIdle

NextWifi ==
    \/ LoopTop
    \/ WaitDisconnected
    \/ LinkLost
    \/ DisconnectSleepOver
    \/ IsStarted
    \/ SetConfiguration
    \/ Start
    \/ Stop
    \/ Connect
    \/ ConnectSleepOver

\* The wifi::connection task and its controller.
SpecWifi == InitWifi /\ [][NextWifi]_vars

-----------------------------------------------------------------------------
(* What the line-protocol grammar asks of a record.                        *)

\* ",k=v" for each tag, in order.
RECURSIVE JoinTags(_)
JoinTags(tags) ==
    IF tags = <<>> THEN <<>>
    ELSE <<",">> \o Head(tags)[1] \o <<"=">> \o Head(tags)[2] \o JoinTags(Tail(tags))

FieldText(f) == f[1] \o <<"=">> \o FmtF32(f[2])

\* "k=v" for each field, in order, joined by single commas.
RECURSIVE JoinFields(_)
JoinFields(fields) ==
    IF fields = <<>> THEN <<>>
    ELSE IF Len(fields) = 1 THEN FieldText(Head(fields))
    ELSE FieldText(Head(fields)) \o <<",">> \o JoinFields(Tail(fields))

EndsWith(s, suffix) ==
    /\ Len(suffix) <= Len(s)
    /\ SubSeq(s, Len(s) - Len(suffix) + 1, Len(s)) = suffix

LastCall == calls[Len(calls)]

\* An identifier the validation rules reject.
BadIdent(s) == StartsWith(s, "_") \/ Contains(s, NL) \/ Contains(s, QUOTE)

ValidationErrors == { "StartWithUnderScore", "ContainsNewLine", "ContainsQuotes" }

-----------------------------------------------------------------------------
(* Claims about the builder, under SpecEnc.                                *)

\* C1: a finished record with no tags, one or more fields and no timestamp
\* is the measurement name, exactly one space, the fields joined by single
\* commas, and one newline.
C1_ZeroTagShape ==
    (stage = "Done" /\ tagArgs = <<>> /\ Len(fieldArgs) >= 1 /\ tsArg = -1)
        => w.buf = mArg \o <<" ">> \o JoinFields(fieldArgs) \o <<NL>>

\* C2: with one or more tags, tag() and end_tags fail only for lack of room
\* in the sink; right after end_tags the sink holds the name, ",k=v" per tag
\* in call order and exactly one space; and the record finished by build()
\* is that, the fields and a newline.
C2_TaggedShape ==
    /\ (calls # <<>> /\ LastCall.op \in {"tag", "end_tags"}
            /\ \A i \in 1..Len(LastCall.ids) : ~BadIdent(LastCall.ids[i]))
         => (result = "Ok" \/ Room(w) = 0)
    /\ (Len(tagArgs) >= 1 /\ stage = "Field" /\ fieldArgs = <<>>)
         => w.buf = mArg \o JoinTags(tagArgs) \o <<" ">>
    /\ (Len(tagArgs) >= 1 /\ stage = "Done" /\ tsArg = -1)
         => w.buf = mArg \o JoinTags(tagArgs) \o <<" ">>
                        \o JoinFields(fieldArgs) \o <<NL>>

C2_Witness ==
    /\ stage = "Done"
    /\ Len(tagArgs) = 2
    /\ Len(fieldArgs) >= 1
    /\ tsArg = -1

\* C3: a record finished by ts(ns) after one or more fields ends with the
\* last field, one space, the decimal digits of ns and one newline.
C3_TimestampTail ==
    (stage = "Done" /\ tsArg # -1 /\ Len(fieldArgs) >= 1)
        => /\ EndsWith(w.buf, FieldText(fieldArgs[Len(fieldArgs)])
                                \o <<" ">> \o FmtU64(tsArg) \o <<NL>>)
           /\ tsArg = 1000 => EndsWith(w.buf, <<" ", "1", "0", "0", "0", NL>>)
           /\ tsArg = 0 => EndsWith(w.buf, <<" ", "0", NL>>)

C3_Witness ==
    /\ stage = "Done"
    /\ tsArg = 1000
    /\ Len(fieldArgs) = 2

\* C4: a call given an identifier the rules reject returns a validation
\* error and leaves the sink exactly as it was.
C4_RejectedWritesNothing ==
    [][(calls' # calls /\ \E i \in 1..Len(calls'[Len(calls')].ids) :
                              BadIdent(calls'[Len(calls')].ids[i]))
          => (result' \in ValidationErrors /\ w' = w)]_vars

C4_Witness ==
    /\ calls # <<>>
    /\ LastCall.op = "field"
    /\ result \in ValidationErrors
    /\ Len(fieldArgs) >= 1

\* C6: a record that was finalized (build() or ts() returned Ok) holds one or
\* more fields.
C6_FieldRequired == stage = "Done" => Len(fieldArgs) >= 1

\* The calls that may come right before a call.
MayPrecede(op) ==
    CASE op = "measurement" -> {}
      [] op = "tag" -> {"measurement", "tag"}
      [] op = "end_tags" -> {"measurement", "tag"}
      [] op = "field" -> {"end_tags", "field"}
      [] op = "end_fields" -> {"end_tags", "field"}
      [] op \in {"ts", "build"} -> {"end_fields"}

\* C7: the calls come in stage order: measurement first and before any byte
\* is written, tags only between measurement and end_tags, fields only
\* between end_tags and end_fields, ts or build only right after end_fields,
\* and nothing after a call that failed or finalized.
C7_StageOrder ==
    /\ calls = <<>> => w.buf = <<>>
    /\ \A i \in 1..Len(calls) :
         /\ i = 1 => calls[i].op = "measurement"
         /\ i > 1 => /\ calls[i - 1].op \in MayPrecede(calls[i].op)
                     /\ calls[i - 1].res = "Ok"

C7_Witness ==
    /\ stage = "Done"
    /\ Len(tagArgs) >= 1
    /\ Len(fieldArgs) >= 1

\* C8: build() and ts() return Ok only with the newline written last and the
\* sink flushed after it, once; and no other call flushes the sink.
C8_FinalizeOrder ==
    /\ (calls # <<>> /\ LastCall.op \in {"build", "ts"} /\ result = "Ok")
         => /\ w.buf[Len(w.buf)] = NL
            /\ \A i \in 1..(Len(w.buf) - 1) : w.buf[i] # NL
            /\ w.flushCalls = 1
            /\ w.flushed = Len(w.buf)
    /\ (calls = <<>> \/ LastCall.op \notin {"build", "ts"}) => w.flushCalls = 0

C8_Witness ==
    /\ calls # <<>>
    /\ LastCall.op = "ts"
    /\ result = "Ok"

-----------------------------------------------------------------------------
(* Claims about validate_str, under SpecVal.                               *)

\* C5: validate_str reports a leading underscore first, else a newline, else
\* a double quote, else success.
C5_RuleOrder ==
    vres # "none" =>
        /\ StartsWith(vs, "_") => vres = "StartWithUnderScore"
        /\ (~StartsWith(vs, "_") /\ Contains(vs, NL)) => vres = "ContainsNewLine"
        /\ (~StartsWith(vs, "_") /\ ~Contains(vs, NL) /\ Contains(vs, QUOTE))
             => vres = "ContainsQuotes"
        /\ ~BadIdent(vs) => vres = "Ok"

C5_Witness ==
    /\ vres = "ContainsNewLine"
    /\ Contains(vs, QUOTE)

-----------------------------------------------------------------------------
(* Claims about the bus and the three threads, under Spec.                 *)

\* C9: the producer's publish never waits for a subscriber: whenever
\* read_sensor is in bus.broadcast, the call can return at once, however many
\* readings a subscriber has left unread.
C9_PublishNeverBlocks == prodPc = "broadcast" => ENABLED Broadcast

\* C10: while the delivery loop is not taking readings from its subscription
\* and the display loop has received everything published so far, the
\* producer's next publish is not held up, so the display loop goes on
\* receiving every new reading.
C10_IndependentSubscribers ==
    (/\ sendPc \in {"wifi", "http", "request", "sleep"}
     /\ dispPc = "recv"
     /\ Unread("display") = 0
     /\ prodPc = "broadcast")
        => ENABLED Broadcast

-----------------------------------------------------------------------------
(* Further claims about the builder, under SpecEnc.                        *)

\* C18: whenever measurement(name) returned Ok, the sink holds every byte of
\* name, in order, also when the sink took fewer bytes than it was offered.
C18_NameVerbatim ==
    (calls # <<>> /\ calls[1].op = "measurement" /\ calls[1].res = "Ok")
        => Take(w.buf, Len(calls[1].ids[1])) = calls[1].ids[1]

\* C19: after end_tags and n >= 1 successful field() calls, the space that
\* end_tags wrote is followed by exactly k1=v1,...,kn=vn: a comma before every
\* field but the first, none leading and none trailing, with or without tags.
C19_FieldSeparators ==
    (stage = "Field" /\ Len(fieldArgs) >= 1)
        => /\ EndsWith(w.buf, <<" ">> \o JoinFields(fieldArgs))
           /\ Len(SelectSeq(w.buf, LAMBDA c : c = " ")) = 1

C19_Witness ==
    /\ stage = "Field"
    /\ Len(fieldArgs) = 2
    /\ tagArgs = <<>>

\* C20 as stated: the end_fields call appends exactly one space to the sink.
C20_EndFieldsWritesSpace ==
    [][(calls' # calls /\ calls'[Len(calls')].op = "end_fields")
          => w'.buf = w.buf \o <<" ">>]_vars

\* C20, amended: the end_fields call writes nothing and cannot fail; the one
\* space that separates the fields from a timestamp is written by ts(), and
\* a record finished by build() has no space after its last field.
C20_EndFieldsWritesNothing ==
    /\ [][(calls' # calls /\ calls'[Len(calls')].op = "end_fields")
            => (w' = w /\ result' = "Ok")]_vars
    /\ [][(calls' # calls /\ calls'[Len(calls')].op = "ts" /\ result' = "Ok")
            => w'.buf = w.buf \o <<" ">> \o FmtU64(tsArg') \o <<NL>>]_vars
    /\ [][(calls' # calls /\ calls'[Len(calls')].op = "build" /\ result' = "Ok")
            => w'.buf = w.buf \o <<NL>>]_vars

C20_Witness ==
    /\ calls # <<>>
    /\ LastCall.op = "end_fields"
    /\ Len(fieldArgs) >= 1

-----------------------------------------------------------------------------
(* Further claims about the bus and the three threads, under Spec.         *)

\* The readings read_sensor has handed to bus.broadcast: those published and
\* the one it is in broadcast with.
Offered == Len(published) + (IF prodPc = "broadcast" THEN 1 ELSE 0)

\* C11: a subscriber that was offered more readings than the queue capacity
\* since it last read has lost the oldest of them: its next receive is the
\* Lagged notice, not a reading, and the readings it then gets start after
\* the dropped ones.
C11_OverflowLagged ==
    [][\A r \in Readers :
          (Offered - rd[r] > BusLen) => got'[r] = got[r]]_vars

\* s is t with some elements left out, the order kept.
RECURSIVE IsSubseq(_, _)
IsSubseq(s, t) ==
    IF s = <<>> THEN TRUE
    ELSE IF t = <<>> THEN FALSE
    ELSE IF Head(s) = Head(t) THEN IsSubseq(Tail(s), Tail(t))
    ELSE IsSubseq(s, Tail(t))

\* C12: what each subscriber has received is a subsequence of what was
\* published, in publish order, with no reading received twice.
C12_SubscriberOrder ==
    \A r \in Readers :
        /\ IsSubseq(got[r], published)
        /\ Len(got[r]) <= Len(published)

C12_Witness ==
    /\ Len(got["sender"]) >= 3
    /\ got["sender"][1] # got["sender"][2]
    /\ Len(got["display"]) >= 1

\* C13: every reading on the bus, and every reading a subscriber received,
\* has -40.0 <= temperature <= 80.0 and 0.0 < humidity < 100.0.
InRange(d) ==
    /\ -400 <= d.temperature /\ d.temperature <= 800
    /\ 0 < d.humidity /\ d.humidity < 1000

C13_OnlyValidPublished ==
    /\ \A i \in 1..Len(published) : InRange(published[i])
    /\ \A r \in Readers : \A i \in 1..Len(got[r]) : InRange(got[r][i])
    /\ prodPc = "broadcast" => InRange(prodVal)

C13_Witness ==
    /\ \E i \in 1..Len(published) : published[i].temperature = -400
    /\ \E i \in 1..Len(published) : published[i].temperature = 800
    /\ Len(got["display"]) >= 2

\* A do_request call returns in this step.
RequestReturns == sendPc = "request" /\ sendPc' # "request"

\* A status outside 200..299.
Non2xx(status) == status # 0 /\ ~(200 <= status /\ status <= 299)

\* C14: a request answered with a non-2xx status whose body was read leaves
\* the delivery loop connected, on the same session and without a sleep; and
\* the request after it carries the next reading on that same session.
C14_RejectKeepsSession ==
    /\ [][(RequestReturns /\ Non2xx(lastReq'.status))
            => (sendPc' = "recv" /\ session' = session)]_vars
    /\ [][(RequestReturns /\ Non2xx(lastReq.status))
            => (lastReq'.session = lastReq.session
                /\ lastReq'.idx = lastReq.idx + 1)]_vars

C14_Witness ==
    /\ Non2xx(lastReq.status)
    /\ sendPc = "request"
    /\ session = lastReq.session
    /\ rd["sender"] = lastReq.idx + 1

\* A step data_sender can take without waiting for the bus.
SenderStep ==
    \/ WifiUp \/ WifiFail \/ HttpUp \/ HttpFail
    \/ RequestOk \/ RequestErr \/ SenderSleepOver

\* C15: every failure (wifi, the HTTP connection, do_request) leads to the
\* 30 s sleep, the sleep leads only to a new wifi() attempt, a session is
\* set up anew before any further request, data_sender is always somewhere
\* in its loop, and once connected it takes whatever reading is unread.
C15_Resilience ==
    /\ [](sendPc \in {"wifi", "http", "recv", "request", "sleep"})
    /\ [](sendPc # "recv" => ENABLED SenderStep)
    /\ []((sendPc = "recv" /\ Unread("sender") > 0) => ENABLED SenderRecv)
    /\ [][/\ sendPc = "wifi" => sendPc' \in {"wifi", "http", "sleep"}
          /\ sendPc = "http" => sendPc' \in {"http", "recv", "sleep"}
          /\ (RequestReturns /\ lastReq'.status = 0) => sendPc' = "sleep"
          /\ sendPc = "sleep" => sendPc' \in {"sleep", "wifi"}
          /\ (sendPc = "http" /\ sendPc' = "recv") => session' = session + 1
          /\ sendPc' = "request" => sendPc \in {"recv", "request"}
          /\ sendPc # "http" => session' = session]_vars

C15_Witness ==
    /\ lastReq.idx >= 1
    /\ lastReq.status = 0
    /\ session = lastReq.session + 1
    /\ sendPc = "request"

\* C16: every do_request call carries a reading later in the subscription
\* than the call before it, whatever that call's outcome: no reading is the
\* body of two requests.
C16_AtMostOnce ==
    /\ [][RequestReturns => (lastReq'.idx > lastReq.idx /\ sendVal' = NoData)]_vars
    /\ [][sendVal' # sendVal => (sendVal = NoData \/ sendVal' = NoData)]_vars

C16_Witness ==
    /\ lastReq.idx >= 2
    /\ lastReq.status = 0
    /\ session >= 2
    /\ sendPc = "sleep"

-----------------------------------------------------------------------------
(* Claims about the classification of a status, under SpecStatus.          *)

\* C17: a write counts as a success exactly when the status is 200, 201 or
\* 202, for influx::Client::write (it returns Ok) and for handle_response (it
\* logs a success); every other status, 204 included, is a failure for both.
C17_StatusClassification ==
    /\ stWrite # "none" => (stWrite = "Ok" <=> stStatus \in {200, 201, 202})
    /\ stLog # "none" => (stLog = "success" <=> stStatus \in {200, 201, 202})

-----------------------------------------------------------------------------
(* Claims about errors of the builder, under SpecEnc.                      *)

SinkErrors == { "Write", "Fmt" }

\* C21: a builder call that returns an error returns a validation error when
\* an identifier it validates is bad and otherwise the sink's failure wrapped
\* as Write or Fmt; the builder is consumed, so the failed call is the last
\* call of the record: no byte, newline or flush follows it.
C21_ErrorsAbort ==
    /\ \A i \in 1..Len(calls) : calls[i].res # "Ok" => i = Len(calls)
    /\ (calls # <<>> /\ result # "Ok") =>
          /\ stage = "Dropped"
          /\ result \in SinkErrors \cup ValidationErrors
          /\ result \in ValidationErrors <=>
                \E i \in 1..Len(LastCall.ids) : BadIdent(LastCall.ids[i])
    /\ stage = "Dropped" => (calls # <<>> /\ result # "Ok")

\* A tag was written, then a later call failed on the sink, leaving a
\* partial record.
C21_Witness ==
    /\ Len(calls) >= 3
    /\ result \in SinkErrors
    /\ stage = "Dropped"
    /\ tagArgs # <<>>
    /\ ~Contains(w.buf, NL)

-----------------------------------------------------------------------------
(* Claims about the producer's failed reads, under Spec.                   *)

\* C22: a failed sensor read publishes nothing and leads to the 10 s sleep,
\* after which read_sensor reads again; the loop never leaves its states and
\* can always read again; and a valid reading read after any number of
\* failed reads is the one broadcast appends to the bus.
C22_SensorFailuresNotFatal ==
    /\ [][(prodPc = "read" /\ prodPc' = "backoff")
            => (published' = published /\ prodVal' = NoData)]_vars
    /\ [][(prodPc = "backoff" /\ prodPc' # "backoff") => prodPc' = "read"]_vars
    /\ [][prodPc # "boot" => prodPc' \in {"read", "backoff", "broadcast", "sleep"}]_vars
    /\ [](prodPc = "backoff" => ENABLED SensorBackoffOver)
    /\ [](prodPc = "read" => ENABLED SensorReadErr)
    /\ []((prodPc = "read" /\ Len(published) < MaxSamples) => ENABLED SensorReadOk)
    /\ [][(prodPc = "broadcast" /\ prodPc' # "broadcast")
            => (is_correct(prodVal) /\ published' = Append(published, prodVal))]_vars

\* A valid reading has just been published after MaxFails failed reads in a row.
C22_Witness ==
    /\ prodPc = "sleep"
    /\ readFails = MaxFails
    /\ published # <<>>
    /\ is_correct(published[Len(published)])

-----------------------------------------------------------------------------
(* Claims about the display, under Spec.                                   *)

Abs(x) == IF x < 0 THEN -x ELSE x

\* The tens and the units digit of a value given in tenths.
TensDigit(t) == (Abs(t) \div 100) % 10
UnitsDigit(t) == (Abs(t) \div 10) % 10

LastShown == got["display"][Len(got["display"])]

\* C23: the four values handed to the display for a reading are the tens and
\* units digits of its temperature, then those of its humidity, each in 0..9,
\* for every valid reading, negative temperatures included.
C23_DisplayDigits ==
    (digits # <<>> /\ dispPc = "recv") =>
        /\ digits = << TensDigit(LastShown.temperature), UnitsDigit(LastShown.temperature),
                       TensDigit(LastShown.humidity), UnitsDigit(LastShown.humidity) >>
        /\ \A i \in 1..4 : digits[i] \in 0..9

-----------------------------------------------------------------------------
(* Claims about the backlog of the bus, under Spec.                        *)

\* C24: each of the two subscribers has at most BusLen readings published
\* but not yet received, and none of them is discarded: what a subscriber
\* has received is exactly the readings published before its position.
C24_BoundedBacklog ==
    \A r \in Readers :
        /\ Unread(r) \in 0..BusLen
        /\ got[r] = SubSeq(published, 1, rd[r])

\* A subscriber's backlog is full and read_sensor holds the next reading
\* inside broadcast.
C24_Witness ==
    /\ \E r \in Readers : Unread(r) = BusLen
    /\ prodPc = "broadcast"
    /\ is_correct(prodVal)

-----------------------------------------------------------------------------
(* Claims about the connection task, under SpecWifi.                       *)

ControllerOps ==
    { "wait_for_event", "is_started", "set_configuration", "start", "stop", "connect" }

\* connect at position i comes after a set_configuration and a start that
\* succeeded in the same loop iteration.
StartedInIteration(i) ==
    \E j \in 1..i, k \in 1..i :
        /\ j < k
        /\ ctrlLog[j] = [op |-> "set_configuration", res |-> "Ok"]
        /\ ctrlLog[k] = [op |-> "start", res |-> "Ok"]
        /\ \A n \in j..i : ctrlLog[n].op # "loop"

\* The failed call at position i is followed by a sleep before any later
\* controller call.
SleepBeforeNextCall(i) ==
    \A k \in (i + 1)..Len(ctrlLog) :
        ctrlLog[k].op \in ControllerOps
            => \E s \in (i + 1)..(k - 1) : ctrlLog[s].op = "sleep"

\* C25: in the connection loop, connect() is attempted only after the
\* controller was configured and started in the same iteration, a stop is
\* followed by a restart of the iteration, and every failed is_started, stop
\* or connect is followed by a sleep before the next controller call.
C25_ConnectionProtocol ==
    \A i \in 1..Len(ctrlLog) :
        /\ ctrlLog[i].op = "connect" => StartedInIteration(i)
        /\ (ctrlLog[i].op = "stop" /\ i < Len(ctrlLog)) => ctrlLog[i + 1].op = "loop"
        /\ (ctrlLog[i].op \in {"is_started", "stop", "connect"} /\ ctrlLog[i].res = "Err")
              => SleepBeforeNextCall(i)

=============================================================================
